---- MODULE Spec2Model ----
(***************************************************************************)
(* A model of myproto: the per-connection session loop (handle_client and  *)
(* handle_msg of src/src/lib.rs), the length-delimited frame codec it      *)
(* drives, the binary request codec of target/generated/bincode, and the   *)
(* server process of src/src/main.rs: startup, the accept loop, one task   *)
(* per connection and the shutdown on the interrupt signal.                *)
(*                                                                         *)
(* Bytes are integers 0..255, byte strings are sequences of bytes.         *)
(***************************************************************************)
EXTENDS Integers, Sequences, FiniteSets, TLC

VARIABLES
    \* ---- the transport of one connection (the stream S of handle_client)
    wire,        \* bytes the peer has sent that the session has not read yet
    peerEnd,     \* "open", or "eof" once the peer has closed its sending side
    ioBroken,    \* TRUE once the transport has failed (reset, TLS alert, ...)
    stream,      \* history: the items the peer has sent, in order
    \* ---- Framed<S, LengthDelimitedCodec>
    rbuf,        \* the read buffer of the Framed
    dstate,      \* the decoder's state: Head, or Data(n) once a head was read
    written,     \* the response frames fully written to the peer, in order
    outWire,     \* the bytes written to the peer
    \* ---- handle_client's own position and locals
    phase,       \* "Reading", "Handling", "Sending", "Closed"
    bytes,       \* the frame being processed (let bytes = line?)
    resp_bytes,  \* the serialized response awaiting framed.send
    result,      \* what handle_client returned: "none", "Ok", "Err"
    closeCause,  \* history: the statement that ended the session
    received,    \* history: the frames framed.next() has yielded, in order
    sendAttempts,\* history: the number of framed.send calls made
    \* ---- the request codec on its own (RequestEnum::encode, Request::decode)
    cstage,      \* "input", "encoded", "decoded"; "raw", "rawdecoded"
    creq,        \* the request value drawn
    cbytes,      \* its encoding
    cres,        \* the result of decoding cbytes
    \* ---- the server process (main of src/src/main.rs)
    mainPc,      \* main's position: "start", "bound", "listening",
                 \* "failed", "exited" ("off" where main is not modelled)
    startup,     \* history: "pending", "ok", "bind_failed", "tls_failed"
    acceptArm,   \* the accept branch of the pending select!: "armed", "disabled"
    conns        \* per connection: its task's position and its session's history

envVars   == <<wire, peerEnd, ioBroken, stream>>
framedVars == <<rbuf, dstate, written>>
clientVars == <<phase, bytes, resp_bytes, result, closeCause, received, sendAttempts>>
sessionVars == <<rbuf, dstate, written, phase, bytes, resp_bytes, result,
                 closeCause, received, sendAttempts>>
codecVars == <<cstage, creq, cbytes, cres>>
serverVars == <<mainPc, startup, acceptArm, conns>>
vars == <<wire, peerEnd, ioBroken, stream, rbuf, dstate, written, outWire, phase, bytes,
          resp_bytes, result, closeCause, received, sendAttempts,
          cstage, creq, cbytes, cres, mainPc, startup, acceptArm, conns>>

----------------------------------------------------------------------------
\* Bounds of the model.

\* The number of items (frames, oversized heads, cut-off frames) a peer sends.
MaxItems == 2
\* The longest Echo message drawn for the request codec.
MaxMsgLen == 3
\* The longest byte string handed to the request decoder.
MaxRawLen == 4
\* The number of connections peers open to the server.
MaxConns == 2

Conns == 1..MaxConns

----------------------------------------------------------------------------
\* Byte-string helpers.

Drop(s, k) == SubSeq(s, k + 1, Len(s))
Take(s, k) == SubSeq(s, 1, k)

IsPrefix(s, t) == Len(s) <= Len(t) /\ Take(t, Len(s)) = s

\* All sequences over S of length at most n.
SeqUpTo(S, n) == UNION {[1..k -> S] : k \in 0..n}

----------------------------------------------------------------------------
\* LengthDelimitedCodec::new(): a 4-byte big-endian length field, no offset,
\* no adjustment, and the codec's default maximum frame length of 8 MiB.

length_field_len == 4
max_frame_length == 8388608

\* The head read as little-endian.
HeadValue_le(h) == h[4] * 16777216 + h[3] * 65536 + h[2] * 256 + h[1]

\* The big-endian value of a 4-byte head.
HeadValue(h) == h[1] * 16777216 + h[2] * 65536 + h[3] * 256 + h[4]

\* The 4-byte big-endian head of a length n.
HeadBytes(n) ==
    << (n \div 16777216) % 256, (n \div 65536) % 256, (n \div 256) % 256, n % 256 >>

HeadState == [state |-> "Head", n |-> 0]
DataState(n) == [state |-> "Data", n |-> n]

\* LengthDelimitedCodec::encode: the head, then the payload; a payload longer
\* than max_frame_length is refused.
LengthDelimited_encode(data) ==
    IF Len(data) > max_frame_length
    THEN [ok |-> FALSE, out |-> <<>>]
    ELSE [ok |-> TRUE, out |-> HeadBytes(Len(data)) \o data]

\* decode_head without the check against max_frame_length.
decode_head_unbounded(buf) ==
    IF Len(buf) < length_field_len
    THEN [r |-> "None", n |-> 0, buf |-> buf]
    ELSE [r |-> "Some", n |-> HeadValue(Take(buf, length_field_len)),
          buf |-> Drop(buf, length_field_len)]

\* decode_head: fewer than 4 bytes buffered: not ready. Otherwise the head is
\* read; a length over max_frame_length is an error, else the head is consumed
\* and the decoder waits for n bytes of data.
decode_head(buf) ==
    IF Len(buf) < length_field_len
    THEN [r |-> "None", n |-> 0, buf |-> buf]
    ELSE LET n == HeadValue(Take(buf, length_field_len))
         IN  IF n > max_frame_length
             THEN [r |-> "Err", n |-> n, buf |-> buf]
             ELSE [r |-> "Some", n |-> n, buf |-> Drop(buf, length_field_len)]

\* decode_data: the frame once all its n bytes are buffered.
decode_data(n, buf) ==
    IF Len(buf) < n
    THEN [r |-> "None", frame |-> <<>>, buf |-> buf]
    ELSE [r |-> "Some", frame |-> Take(buf, n), buf |-> Drop(buf, n)]

\* LengthDelimitedCodec::decode on the decoder state st and the buffer buf:
\* r is "Some" (a frame), "None" (more bytes needed) or "Err" (frame too large).
LengthDelimited_decode(st, buf) ==
    LET h == IF st.state = "Head" THEN decode_head(buf)
             ELSE [r |-> "Some", n |-> st.n, buf |-> buf]
    IN  IF h.r = "None"
        THEN [r |-> "None", frame |-> <<>>, buf |-> buf, st |-> st]
        ELSE IF h.r = "Err"
        THEN [r |-> "Err", frame |-> <<>>, buf |-> buf, st |-> st]
        ELSE LET d == decode_data(h.n, h.buf)
             IN  IF d.r = "Some"
                 THEN [r |-> "Some", frame |-> d.frame, buf |-> d.buf, st |-> HeadState]
                 ELSE [r |-> "None", frame |-> <<>>, buf |-> h.buf, st |-> DataState(h.n)]

\* decode_eof that hands the bytes left in the buffer over as a last frame.
decode_eof_flush(st, buf) ==
    LET d == LengthDelimited_decode(st, buf)
    IN  IF d.r # "None" THEN d
        ELSE IF d.buf = <<>>
        THEN [r |-> "End", frame |-> <<>>, buf |-> d.buf, st |-> d.st]
        ELSE [r |-> "Some", frame |-> d.buf, buf |-> <<>>, st |-> HeadState]

\* decode_eof that reports every EOF as an error.
decode_eof_strict(st, buf) ==
    LET d == LengthDelimited_decode(st, buf)
    IN  IF d.r # "None" THEN d
        ELSE [r |-> "Err", frame |-> <<>>, buf |-> d.buf, st |-> d.st]

\* Decoder::decode_eof (the default): a last decode; if it yields nothing, a
\* non-empty buffer is the error "bytes remaining on stream" and an empty one
\* ends the frame sequence.
decode_eof(st, buf) ==
    LET d == LengthDelimited_decode(st, buf)
    IN  IF d.r # "None" THEN d
        ELSE IF d.buf = <<>>
        THEN [r |-> "End", frame |-> <<>>, buf |-> d.buf, st |-> d.st]
        ELSE [r |-> "Err", frame |-> <<>>, buf |-> d.buf, st |-> d.st]

----------------------------------------------------------------------------
\* The binary encoding of integers and strings used by the request codec
\* (<u32 as Encode>::encode, <u32 as Decode>::decode and the String impls the
\* generated code calls): a value below 251 is one byte; 251, 252, 253
\* announce a little-endian u16, u32, u64; 254 and 255 are never accepted.

\* The little-endian bytes of v, w of them.
RECURSIVE LEBytes(_, _)
LEBytes(v, w) == IF w = 0 THEN <<>> ELSE <<v % 256>> \o LEBytes(v \div 256, w - 1)

\* The value of little-endian bytes (at most 4, the last below 128).
RECURSIVE LEValue(_)
LEValue(le) == IF le = <<>> THEN 0 ELSE le[1] + 256 * LEValue(Drop(le, 1))

\* Whether little-endian bytes hold a value of 2^31 or more.
Huge(le) == \E i \in 1..Len(le) : (i > 4 /\ le[i] # 0) \/ (i = 4 /\ le[i] >= 128)

varint_encode(v) ==
    IF v < 251 THEN <<v>>
    ELSE IF v < 65536 THEN <<251>> \o LEBytes(v, 2)
    ELSE <<252>> \o LEBytes(v, 4)

\* Decoding an unsigned integer whose widest accepted marker is maxMarker (252
\* for u32, 253 for usize): le holds the value's little-endian bytes.
varint_decode(buf, maxMarker) ==
    IF buf = <<>>
    THEN [ok |-> FALSE, err |-> "UnexpectedEnd", le |-> <<>>, rest |-> buf]
    ELSE IF buf[1] < 251
    THEN [ok |-> TRUE, err |-> "", le |-> <<buf[1]>>, rest |-> Drop(buf, 1)]
    ELSE IF buf[1] > maxMarker
    THEN [ok |-> FALSE, err |-> "InvalidIntegerType", le |-> <<>>, rest |-> buf]
    ELSE LET w == IF buf[1] = 251 THEN 2 ELSE IF buf[1] = 252 THEN 4 ELSE 8
         IN  IF Len(buf) < 1 + w
             THEN [ok |-> FALSE, err |-> "UnexpectedEnd", le |-> <<>>, rest |-> buf]
             ELSE [ok |-> TRUE, err |-> "", le |-> SubSeq(buf, 2, 1 + w),
                   rest |-> Drop(buf, 1 + w)]

\* i32 fields are zigzag-encoded: an even u is u/2, an odd u is -(u+1)/2.
ZigZagHalf(le) ==
    (le[1] \div 2)
    + (IF Len(le) >= 2 THEN 128 * le[2] ELSE 0)
    + (IF Len(le) >= 3 THEN 32768 * le[3] ELSE 0)
    + (IF Len(le) >= 4 THEN 8388608 * le[4] ELSE 0)

ZigZagValue(le) == IF le[1] % 2 = 0 THEN ZigZagHalf(le) ELSE (0 - ZigZagHalf(le)) - 1

decode_i32(buf) ==
    LET u == varint_decode(buf, 252)
    IN  [ok |-> u.ok, err |-> u.err, val |-> IF u.ok THEN ZigZagValue(u.le) ELSE 0,
         rest |-> u.rest]

\* str::from_utf8 on a byte string.
IsCont(b) == b >= 128 /\ b <= 191

RECURSIVE IsUtf8(_)
IsUtf8(s) ==
    IF s = <<>> THEN TRUE
    ELSE IF s[1] < 128 THEN IsUtf8(Drop(s, 1))
    ELSE IF s[1] >= 194 /\ s[1] <= 223
    THEN Len(s) >= 2 /\ IsCont(s[2]) /\ IsUtf8(Drop(s, 2))
    ELSE IF s[1] >= 224 /\ s[1] <= 239
    THEN /\ Len(s) >= 3 /\ IsCont(s[2]) /\ IsCont(s[3])
         /\ (s[1] = 224 => s[2] >= 160)
         /\ (s[1] = 237 => s[2] <= 159)
         /\ IsUtf8(Drop(s, 3))
    ELSE IF s[1] >= 240 /\ s[1] <= 244
    THEN /\ Len(s) >= 4 /\ IsCont(s[2]) /\ IsCont(s[3]) /\ IsCont(s[4])
         /\ (s[1] = 240 => s[2] >= 144)
         /\ (s[1] = 244 => s[2] <= 143)
         /\ IsUtf8(Drop(s, 4))
    ELSE FALSE

\* String::encode: the length in bytes, then the bytes.
encode_string(s) == varint_encode(Len(s)) \o s

\* String::decode: the length, that many bytes, and they must be UTF-8.
decode_string(buf) ==
    LET l == varint_decode(buf, 253)
    IN  IF ~l.ok
        THEN [ok |-> FALSE, err |-> l.err, val |-> <<>>, rest |-> buf]
        ELSE IF Huge(l.le) \/ LEValue(l.le) > Len(l.rest)
        THEN [ok |-> FALSE, err |-> "UnexpectedEnd", val |-> <<>>, rest |-> buf]
        ELSE LET n == LEValue(l.le)
             IN  IF IsUtf8(Take(l.rest, n))
                 THEN [ok |-> TRUE, err |-> "", val |-> Take(l.rest, n),
                       rest |-> Drop(l.rest, n)]
                 ELSE [ok |-> FALSE, err |-> "Utf8", val |-> <<>>, rest |-> buf]

----------------------------------------------------------------------------
\* Requests. A request value is a record: kind, and the fields of every kind
\* (message for Echo, a and b for Add), unused ones at their defaults.

Ping == [kind |-> "Ping", message |-> <<>>, a |-> 0, b |-> 0]
Echo(m) == [kind |-> "Echo", message |-> m, a |-> 0, b |-> 0]
Add(x, y) == [kind |-> "Add", message |-> <<>>, a |-> x, b |-> y]
\* A request kind implemented outside this crate: the Request trait is public
\* and open, and only its signature is known.
Dyn == [kind |-> "Dyn", message |-> <<>>, a |-> 0, b |-> 0]
NoRequest == [kind |-> "", message |-> <<>>, a |-> 0, b |-> 0]

DecodeOk(v, rest) == [ok |-> TRUE, err |-> "", val |-> v, rest |-> rest]
DecodeErr(e) == [ok |-> FALSE, err |-> e, val |-> NoRequest, rest |-> <<>>]

\* RequestEnum::encode: the discriminant, then the variant's fields.
RequestEnum_encode(req) ==
    IF req.kind = "Ping" THEN varint_encode(0)
    ELSE varint_encode(1) \o encode_string(req.message)

\* Request::decode with the match arms of 0 and 1 exchanged.
Request_decode_swapped(buf) ==
    LET v == varint_decode(buf, 252)
    IN  IF ~v.ok THEN DecodeErr(v.err)
        ELSE IF ~Huge(v.le) /\ LEValue(v.le) = 1 THEN DecodeOk(Ping, v.rest)
        ELSE IF ~Huge(v.le) /\ LEValue(v.le) = 0
        THEN LET m == decode_string(v.rest)
             IN  IF m.ok THEN DecodeOk(Echo(m.val), m.rest) ELSE DecodeErr(m.err)
        ELSE DecodeErr("UnexpectedVariant")

\* Request::decode whose last match arm yields a request instead of the error.
Request_decode_lenient(buf) ==
    LET v == varint_decode(buf, 252)
    IN  IF ~v.ok THEN DecodeErr(v.err)
        ELSE IF ~Huge(v.le) /\ LEValue(v.le) = 1
        THEN LET m == decode_string(v.rest)
             IN  IF m.ok THEN DecodeOk(Echo(m.val), m.rest) ELSE DecodeErr(m.err)
        ELSE DecodeOk(Ping, v.rest)

\* Request::decode: the discriminant alone selects the variant.
Request_decode(buf) ==
    LET v == varint_decode(buf, 252)
    IN  IF ~v.ok THEN DecodeErr(v.err)
        ELSE IF ~Huge(v.le) /\ LEValue(v.le) = 0 THEN DecodeOk(Ping, v.rest)
        ELSE IF ~Huge(v.le) /\ LEValue(v.le) = 1
        THEN LET m == decode_string(v.rest)
             IN  IF m.ok THEN DecodeOk(Echo(m.val), m.rest) ELSE DecodeErr(m.err)
        ELSE DecodeErr("UnexpectedVariant")

----------------------------------------------------------------------------
\* Responses. A response value is a record: the tag of its type, the string
\* it wraps (ErrorResponse, PingResponse, EchoResponse) and the sum
\* (AddResponse), unused fields at their defaults.

\* "Thou shalt not to use HTTP;\nThou shalt write thoust own protocol"
PingText ==
    << 84, 104, 111, 117, 32, 115, 104, 97, 108, 116, 32, 110, 111, 116, 32,
       116, 111, 32, 117, 115, 101, 32, 72, 84, 84, 80, 59, 10, 84, 104, 111,
       117, 32, 115, 104, 97, 108, 116, 32, 119, 114, 105, 116, 101, 32, 116,
       104, 111, 117, 115, 116, 32, 111, 119, 110, 32, 112, 114, 111, 116,
       111, 99, 111, 108 >>

\* "Failed to parse request: "
FailedToParse ==
    << 70, 97, 105, 108, 101, 100, 32, 116, 111, 32, 112, 97, 114, 115, 101,
       32, 114, 101, 113, 117, 101, 115, 116, 58, 32 >>

\* {e}: the decode error as text.
ErrorText(e) ==
    CASE e = "UnexpectedEnd" -> <<85, 110, 101, 120, 112, 101, 99, 116, 101, 100, 69, 110, 100>>
      [] e = "InvalidIntegerType" -> <<73, 110, 118, 97, 108, 105, 100, 73, 110, 116, 101, 103, 101, 114, 84, 121, 112, 101>>
      [] e = "UnexpectedVariant" -> <<85, 110, 101, 120, 112, 101, 99, 116, 101, 100, 86, 97, 114, 105, 97, 110, 116>>
      [] e = "Utf8" -> <<85, 116, 102, 56>>
      [] OTHER -> <<>>

ErrorResponse(s) == [tag |-> "ErrorResponse", value |-> s, sum |-> 0]
PingResponse(s) == [tag |-> "PingResponse", value |-> s, sum |-> 0]
EchoResponse(s) == [tag |-> "EchoResponse", value |-> s, sum |-> 0]
AddResponse(n) == [tag |-> "AddResponse", value |-> <<>>, sum |-> n]
\* The response of a request kind implemented outside this crate.
DynResponse == [tag |-> "DynResponse", value |-> <<>>, sum |-> 0]
NoResponse == [tag |-> "", value |-> <<>>, sum |-> 0]

Ok(resp) == [r |-> "Ok", resp |-> resp]
Err == [r |-> "Err", resp |-> NoResponse]
Panic == [r |-> "Panic", resp |-> NoResponse]

----------------------------------------------------------------------------
\* bincode::deserialize::<Box<dyn Request>>(input): the tag selects a
\* registered request kind, whose body is then decoded. Registered are Ping,
\* Echo and Add (in declaration order) and one kind from outside the crate.

TagAdd == 2
TagDyn == 3

decode_Add(buf) ==
    LET x == decode_i32(buf)
    IN  IF ~x.ok THEN DecodeErr(x.err)
        ELSE LET y == decode_i32(x.rest)
             IN  IF ~y.ok THEN DecodeErr(y.err)
                 ELSE DecodeOk(Add(x.val, y.val), y.rest)

deserialize(input) ==
    LET v == varint_decode(input, 252)
    IN  IF ~v.ok THEN DecodeErr(v.err)
        ELSE IF Huge(v.le) THEN DecodeErr("UnexpectedVariant")
        ELSE IF LEValue(v.le) = TagAdd THEN decode_Add(v.rest)
        ELSE IF LEValue(v.le) = TagDyn THEN DecodeOk(Dyn, v.rest)
        ELSE Request_decode(input)

\* i32 arithmetic. self.a + self.b overflows for some operands: a build with
\* overflow checks panics there, a build without them wraps around.
MaxI32 == 2147483647
MinI32 == (0 - 2147483647) - 1

Overflows(x, y) ==
    \/ y > 0 /\ x > MaxI32 - y
    \/ y < 0 /\ x < MinI32 - y

wrapping_add(x, y) ==
    IF y > 0 /\ x > MaxI32 - y THEN (x + MinI32) + (y + MinI32)
    ELSE IF y < 0 /\ x < MinI32 - y THEN (x - MinI32) + (y - MinI32)
    ELSE x + y

\* Ping::handle, Echo::handle, Add::handle: the outcomes a call can have.
Ping_handle == {Ok(PingResponse(PingText))}
Echo_handle(req) == {Ok(EchoResponse(req.message))}
Add_handle(req) ==
    IF Overflows(req.a, req.b)
    THEN {Panic, Ok(AddResponse(wrapping_add(req.a, req.b)))}
    ELSE {Ok(AddResponse(req.a + req.b))}
\* Request::handle of a kind from outside the crate: any Result.
Dyn_handle == {Ok(DynResponse), Err}

\* req.handle().await: dynamic dispatch on the request's kind.
Request_handle(req) ==
    CASE req.kind = "Ping" -> Ping_handle
      [] req.kind = "Echo" -> Echo_handle(req)
      [] req.kind = "Add" -> Add_handle(req)
      [] OTHER -> Dyn_handle

\* handle_msg that returns the deserialization error (bincode::deserialize(input)?).
handle_msg_propagating(input) ==
    LET d == deserialize(input)
    IN  IF ~d.ok THEN {Err} ELSE Request_handle(d.val)

\* handle_msg answering Ping with a text that counts the sessions served so
\* far: a handler keeping state shared between sessions.
handle_msg_counting(input) ==
    LET d == deserialize(input)
        served == Cardinality({ c \in Conns : conns[c].written # <<>> })
    IN  IF ~d.ok
        THEN {Ok(ErrorResponse(FailedToParse \o ErrorText(d.err)))}
        ELSE IF d.val.kind = "Ping"
        THEN {Ok(PingResponse(PingText \o <<48 + served>>))}
        ELSE Request_handle(d.val)

\* handle_msg: a request that does not deserialize is answered by an
\* ErrorResponse (an Ok result); otherwise the handler's own result is returned.
handle_msg(input) ==
    LET d == deserialize(input)
    IN  IF ~d.ok
        THEN {Ok(ErrorResponse(FailedToParse \o ErrorText(d.err)))}
        ELSE Request_handle(d.val)

\* bincode::serialize(&resp): the tag of the response's type, then its content.
\* i32 is written zigzag: 2v for v >= 0, -2v-1 for v < 0.
encode_i32(v) ==
    LET h == IF v >= 0 THEN v ELSE 0 - (v + 1)
        bit == IF v >= 0 THEN 0 ELSE 1
        le == << (h % 128) * 2 + bit, (h \div 128) % 256, (h \div 32768) % 256,
                 (h \div 8388608) % 256 >>
    IN  IF h < 125 \/ (h = 125 /\ bit = 0) THEN <<le[1]>>
        ELSE IF h < 32768 THEN <<251, le[1], le[2]>>
        ELSE <<252>> \o le

ResponseTag(resp) ==
    CASE resp.tag = "ErrorResponse" -> 0
      [] resp.tag = "PingResponse" -> 1
      [] resp.tag = "EchoResponse" -> 2
      [] resp.tag = "AddResponse" -> 3
      [] OTHER -> 4

SerOk(out) == [ok |-> TRUE, out |-> out]
SerErr == [ok |-> FALSE, out |-> <<>>]

\* The outcomes of bincode::serialize(&resp): the crate's own responses always
\* serialize; the Serialize impl of a response from outside the crate may fail.
serialize(resp) ==
    IF resp.tag = "AddResponse"
    THEN {SerOk(varint_encode(ResponseTag(resp)) \o encode_i32(resp.sum))}
    ELSE IF resp.tag = "DynResponse"
    THEN {SerOk(varint_encode(ResponseTag(resp))), SerErr}
    ELSE {SerOk(varint_encode(ResponseTag(resp)) \o encode_string(resp.value))}

----------------------------------------------------------------------------
\* The peer: what it may put on the connection.

\* The payloads a peer frames: undersized, Ping, Echo "a", Echo without its
\* message, Echo whose message is cut short, Add{2,3}, a request of the outside
\* kind, an unknown tag.
Payloads ==
    { <<>>, <<0>>, <<1, 1, 97>>, <<1>>, <<1, 2, 97>>, <<2, 4, 6>>, <<3>>, <<7>> }

\* Heads announcing more than max_frame_length bytes.
OversizedHeads == { <<1, 0, 0, 0>>, <<0, 128, 0, 1>> }

FrameItem(p) == [kind |-> "frame", data |-> p]
OversizeItem(h) == [kind |-> "oversize", data |-> h]
PartialItem(b) == [kind |-> "partial", data |-> b]

\* The payloads of the whole frames the peer sent before anything else.
RECURSIVE WholeFrames(_)
WholeFrames(items) ==
    IF items = <<>> \/ items[1].kind # "frame" THEN <<>>
    ELSE <<items[1].data>> \o WholeFrames(Drop(items, 1))

\* The peer frames a payload with the same codec and sends it.
PeerSendFrame(p) ==
    /\ peerEnd = "open"
    /\ Len(stream) < MaxItems
    /\ wire' = wire \o LengthDelimited_encode(p).out
    /\ stream' = Append(stream, FrameItem(p))
    /\ UNCHANGED <<peerEnd, ioBroken, sessionVars, outWire, codecVars, serverVars>>

\* The peer sends a head announcing a frame over the maximum.
PeerSendOversize(h) ==
    /\ peerEnd = "open"
    /\ Len(stream) < MaxItems
    /\ wire' = wire \o h
    /\ stream' = Append(stream, OversizeItem(h))
    /\ UNCHANGED <<peerEnd, ioBroken, sessionVars, outWire, codecVars, serverVars>>

\* The peer sends the first k bytes of a frame and closes: EOF mid-frame.
PeerSendPartial(p, k) ==
    /\ peerEnd = "open"
    /\ Len(stream) < MaxItems
    /\ k >= 1 /\ k < length_field_len + Len(p)
    /\ wire' = wire \o Take(LengthDelimited_encode(p).out, k)
    /\ stream' = Append(stream, PartialItem(Take(LengthDelimited_encode(p).out, k)))
    /\ peerEnd' = "eof"
    /\ UNCHANGED <<ioBroken, sessionVars, outWire, codecVars, serverVars>>

\* The peer closes its sending side: EOF once the sent bytes are read.
PeerClose ==
    /\ peerEnd = "open"
    /\ peerEnd' = "eof"
    /\ UNCHANGED <<wire, ioBroken, stream, sessionVars, outWire, codecVars, serverVars>>

\* The transport fails: every later read and write returns an I/O error.
TransportFail ==
    /\ ~ioBroken
    /\ ioBroken' = TRUE
    /\ UNCHANGED <<wire, peerEnd, stream, sessionVars, outWire, codecVars, serverVars>>

----------------------------------------------------------------------------
\* handle_client.

\* handle_client returns (or its task ends): the session is Closed.
Close(res, cause) ==
    /\ phase' = "Closed"
    /\ result' = res
    /\ closeCause' = cause

\* A loop that asks for the next frame while the last response is still to be sent.
CanRead_pipelined == phase \in {"Reading", "Sending"}

\* A send that is tried again after an error.
SendFailure_retry == UNCHANGED <<phase, result, closeCause>>

\* while let Some(line) = framed.next().await: the loop asks for the next frame
\* only at its head, after the previous iteration's send has completed.
CanRead == phase = "Reading"

\* framed.send(..).await? on an error: handle_client returns it.
SendFailure == Close("Err", "io_write")

\* framed.next().await yields the next frame (or the codec's error) out of the
\* bytes already buffered.
FramedNextDecode ==
    /\ CanRead
    /\ LET d == LengthDelimited_decode(dstate, rbuf)
       IN  /\ d.r # "None"
           /\ \/ /\ d.r = "Some"
                 /\ rbuf' = d.buf
                 /\ dstate' = d.st
                 /\ bytes' = d.frame
                 /\ received' = Append(received, d.frame)
                 /\ phase' = "Handling"
                 /\ UNCHANGED <<result, closeCause>>
              \/ /\ d.r = "Err"
                 /\ Close("Err", "frame_too_large")
                 /\ UNCHANGED <<rbuf, dstate, bytes, received>>
    /\ UNCHANGED <<envVars, written, outWire, resp_bytes, sendAttempts, codecVars, serverVars>>

\* framed.next().await needs more bytes and reads the transport: an I/O error,
\* some of the bytes in flight, or EOF (then decode_eof decides).
FramedNextRead ==
    /\ CanRead
    /\ LET d == LengthDelimited_decode(dstate, rbuf)
       IN  /\ d.r = "None"
           /\ \/ /\ ioBroken
                 /\ Close("Err", "io_read")
                 /\ UNCHANGED <<wire, rbuf, dstate, bytes, received>>
              \/ /\ ~ioBroken
                 /\ \E k \in 1..Len(wire) :
                       /\ rbuf' = d.buf \o Take(wire, k)
                       /\ wire' = Drop(wire, k)
                 /\ dstate' = d.st
                 /\ UNCHANGED <<phase, result, closeCause, bytes, received>>
              \/ /\ ~ioBroken
                 /\ wire = <<>>
                 /\ peerEnd = "eof"
                 /\ LET e == decode_eof(dstate, rbuf)
                    IN  /\ rbuf' = e.buf
                        /\ dstate' = e.st
                        /\ IF e.r = "Some"
                           THEN /\ bytes' = e.frame
                                /\ received' = Append(received, e.frame)
                                /\ phase' = "Handling"
                                /\ UNCHANGED <<result, closeCause>>
                           ELSE /\ IF e.r = "End" THEN Close("Ok", "eof")
                                   ELSE Close("Err", "bytes_remaining")
                                /\ UNCHANGED <<bytes, received>>
                 /\ UNCHANGED wire
    /\ UNCHANGED <<peerEnd, ioBroken, stream, written, outWire, resp_bytes,
                   sendAttempts, codecVars, serverVars>>

\* let resp = handle_msg(&bytes).await?; let resp_bytes = bincode::serialize(&resp)?;
HandleMsg ==
    /\ phase = "Handling"
    /\ \E o \in handle_msg(bytes) :
          \/ /\ o.r = "Err"
             /\ Close("Err", "handler")
             /\ UNCHANGED resp_bytes
          \/ /\ o.r = "Panic"
             /\ Close("Panic", "panic")
             /\ UNCHANGED resp_bytes
          \/ /\ o.r = "Ok"
             /\ \E s \in serialize(o.resp) :
                   \/ /\ s.ok
                      /\ resp_bytes' = s.out
                      /\ phase' = "Sending"
                      /\ UNCHANGED <<result, closeCause>>
                   \/ /\ ~s.ok
                      /\ Close("Err", "serialize")
                      /\ UNCHANGED resp_bytes
    /\ UNCHANGED <<envVars, framedVars, outWire, bytes, received, sendAttempts, codecVars, serverVars>>

\* framed.send(resp_bytes.into()).await?: the frame is encoded and flushed, or
\* the session ends with the error.
FramedSend ==
    /\ phase = "Sending"
    /\ sendAttempts' = sendAttempts + 1
    /\ LET e == LengthDelimited_encode(resp_bytes)
       IN  IF e.ok /\ ~ioBroken
           THEN /\ outWire' = outWire \o e.out
                /\ written' = Append(written, resp_bytes)
                /\ phase' = "Reading"
                /\ UNCHANGED <<result, closeCause>>
           ELSE /\ SendFailure
                /\ UNCHANGED <<outWire, written>>
    /\ UNCHANGED <<envVars, rbuf, dstate, bytes, resp_bytes, received, codecVars, serverVars>>

SessionStep == FramedNextDecode \/ FramedNextRead \/ HandleMsg \/ FramedSend

PeerStep ==
    \/ \E p \in Payloads : PeerSendFrame(p)
    \/ \E h \in OversizedHeads : PeerSendOversize(h)
    \/ \E p \in Payloads : \E k \in 1..(length_field_len + Len(p)) : PeerSendPartial(p, k)
    \/ PeerClose
    \/ TransportFail

\* A peer that draws from fewer payloads: undersized, Ping, the outside kind.
FewPayloads == { <<>>, <<0>>, <<3>> }

FewPeerStep ==
    \/ \E p \in FewPayloads : PeerSendFrame(p)
    \/ PeerSendOversize(<<1, 0, 0, 0>>)
    \/ \E p \in FewPayloads : \E k \in 1..(length_field_len + Len(p)) : PeerSendPartial(p, k)
    \/ PeerClose
    \/ TransportFail

\* A connection the peer has not opened yet.
IdleConn ==
    [st |-> "none", tls |-> "none", invoked |-> FALSE, reqs |-> <<>>, resp |-> <<>>,
     written |-> <<>>, result |-> "none", logged |-> "none"]

\* Where the server process is not part of the specification.
NoServer ==
    /\ mainPc = "off"
    /\ startup = "pending"
    /\ acceptArm = "armed"
    /\ conns = [c \in Conns |-> IdleConn]

NoCodec == cstage = "off" /\ creq = NoRequest /\ cbytes = <<>> /\ cres = DecodeErr("")

Init ==
    /\ wire = <<>>
    /\ peerEnd = "open"
    /\ ioBroken = FALSE
    /\ stream = <<>>
    /\ rbuf = <<>>
    /\ dstate = HeadState
    /\ written = <<>>
    /\ outWire = <<>>
    /\ phase = "Reading"
    /\ bytes = <<>>
    /\ resp_bytes = <<>>
    /\ result = "none"
    /\ closeCause = "none"
    /\ received = <<>>
    /\ sendAttempts = 0
    /\ NoCodec
    /\ NoServer

Next == SessionStep \/ PeerStep

Spec == Init /\ [][Next]_vars

FewNext == SessionStep \/ FewPeerStep

\* The session against the peer of few payloads; the runtime keeps polling the
\* session's task while it can make a step.
FairSpec == Init /\ [][FewNext]_vars /\ WF_vars(SessionStep)

----------------------------------------------------------------------------
\* What the claims speak of.

\* The 4-byte big-endian form of a length below 2^24.
BigEndian4(n) == <<0, (n \div 65536) % 256, (n \div 256) % 256, n % 256>>

\* A payload as a frame on the wire: its length, then the payload.
ExpectedFrame(p) == BigEndian4(Len(p)) \o p

RECURSIVE FramesBytes(_)
FramesBytes(ps) ==
    IF ps = <<>> THEN <<>> ELSE ExpectedFrame(ps[1]) \o FramesBytes(Drop(ps, 1))

\* All the bytes the peer has sent.
RECURSIVE StreamBytes(_)
StreamBytes(items) ==
    IF items = <<>> THEN <<>>
    ELSE (IF items[1].kind = "frame" THEN ExpectedFrame(items[1].data)
          ELSE items[1].data) \o StreamBytes(Drop(items, 1))

AllFrames(items) == \A i \in 1..Len(items) : items[i].kind = "frame"

\* The head the decoder has consumed of a frame whose data it awaits.
PendingHead == IF dstate.state = "Data" THEN BigEndian4(dstate.n) ELSE <<>>

\* The response frames that handling the payload p can produce.
ResponsesFor(p) ==
    { s.out : s \in { t \in UNION { serialize(o.resp) :
                                      o \in { x \in handle_msg(p) : x.r = "Ok" } } :
                      t.ok } }

\* The Error response frame for a decode error e.
ErrorFrame(e) == <<0>> \o encode_string(FailedToParse \o ErrorText(e))

Closed == phase = "Closed"
ClosedByEof == Closed /\ closeCause \in {"eof", "bytes_remaining"}
MidFrame == rbuf # <<>> \/ dstate.state = "Data"

----------------------------------------------------------------------------
\* C1: a frame whose payload does not deserialize (unknown tag, malformed body,
\* undersized buffer) makes handle_msg return an ErrorResponse, not an error:
\* the response written for it is the Error frame naming the decode error, it
\* is the only response for that frame, and the session goes on; the frame is
\* left unanswered only when the write itself fails on the transport.
C1_DecodeFailureAnswered ==
    /\ \A k \in 1..Len(written) :
          ~deserialize(received[k]).ok =>
              written[k] = ErrorFrame(deserialize(received[k]).err)
    /\ Len(written) <= Len(received)
    /\ (phase = "Sending" /\ ~deserialize(bytes).ok) =>
          resp_bytes = ErrorFrame(deserialize(bytes).err)
    /\ (Closed /\ Len(written) < Len(received)
            /\ ~deserialize(received[Len(received)]).ok) =>
          closeCause = "io_write"

\* An undersized frame was answered by an Error frame and the Ping after it on
\* the same connection by the ping text.
C1_Witness ==
    /\ Len(written) = 2
    /\ received = << <<>>, <<0>> >>
    /\ written[1] = ErrorFrame("UnexpectedEnd")
    /\ written[2] = <<1>> \o encode_string(PingText)
    /\ phase = "Reading"

\* C2: a handler failure (Request::handle returns Err) is never fatal to the
\* connection: no session is Closed because a handler failed.
C2_HandlerFailureNotFatal == ~(Closed /\ closeCause = "handler")

\* The state part and the step part of the sequential order of one session.
C3_State ==
    /\ Len(written) <= Len(received)
    /\ Len(received) <= Len(written) + 1
    /\ phase = "Reading" => Len(written) = Len(received)
    /\ phase \in {"Handling", "Sending"} =>
          /\ Len(received) = Len(written) + 1
          /\ bytes = received[Len(received)]
    /\ phase = "Sending" => resp_bytes \in ResponsesFor(bytes)
    /\ \A k \in 1..Len(written) : written[k] \in ResponsesFor(received[k])
    /\ IsPrefix(received, WholeFrames(stream))
    /\ outWire = FramesBytes(written)

C3_Step ==
    (rbuf' # rbuf \/ dstate' # dstate \/ received' # received) =>
        Len(written) = Len(received)

\* C3: processing is strictly sequential. The frames received run at most one
\* ahead of the responses written; the session reads (buffer, decoder, frames
\* yielded) only when every frame received has its response written; the k-th
\* response is a response to the k-th request, the requests being the peer's
\* frames in the order sent; nothing else is ever written.
C3_Sequential == [] C3_State /\ [][C3_Step]_vars

\* An Echo and then a Ping were received and answered, in that order.
C3_Witness ==
    /\ received = << <<1, 1, 97>>, <<0>> >>
    /\ written = << <<2, 1, 97>>, <<1>> \o encode_string(PingText) >>
    /\ phase = "Reading"

\* C4: a session is Closed only by a clean EOF or by a transport or frame
\* failure while reading or writing.
C4_OnlyTransportCloses ==
    Closed => closeCause \in {"eof", "bytes_remaining", "frame_too_large",
                              "io_read", "io_write"}

\* What holds of the sends made, and what a step of a Closed session changes.
C5_State ==
    /\ Closed <=> result # "none"
    /\ sendAttempts <= Len(received)
    /\ closeCause = "io_write" =>
          /\ Closed
          /\ result = "Err"
          /\ sendAttempts = Len(written) + 1

C5_Step == Closed => UNCHANGED <<sessionVars, outWire>>

\* C5: a failed write closes the session with an error and is not tried again
\* (one send per frame received, the failed one being the last); a Closed
\* session has returned and takes no further step: no read, decode, handle or
\* write changes anything of it.
C5_WriteFailureCloses == [] C5_State /\ [][C5_Step]_vars

\* The write of the first response failed: the session is Closed with the one
\* send made, and the frame the peer sent next is left unread.
C5_Witness ==
    /\ closeCause = "io_write"
    /\ Closed
    /\ sendAttempts = 1
    /\ written = <<>>
    /\ Len(stream) = 2
    /\ wire # <<>>

\* The session closed on an EOF met at a frame boundary.
C6_State ==
    (ClosedByEof /\ ~MidFrame) =>
        /\ result = "Ok"
        /\ AllFrames(stream)
        /\ received = WholeFrames(stream)
        /\ Len(written) = Len(received)

\* The peer has sent whole frames only and closed.
C6_PeerClosedAtBoundary == peerEnd = "eof" /\ AllFrames(stream)

\* The session waits for a frame at the end of such a stream, all of it read.
C6_AtBoundary ==
    /\ C6_PeerClosedAtBoundary
    /\ phase = "Reading"
    /\ wire = <<>>
    /\ ~MidFrame

\* C6: when the session meets EOF at a frame boundary (nothing buffered, no
\* frame begun) it is Closed with Ok(()), every frame the peer sent having been
\* received and answered; once the peer has closed after whole frames only,
\* the session does reach Closed; and from the moment it waits at the end of
\* such a stream it reaches Closed with Ok(()), unless the transport fails
\* under that last read.
C6_CleanShutdown ==
    /\ [] C6_State
    /\ C6_PeerClosedAtBoundary ~> Closed
    /\ C6_AtBoundary ~> (Closed /\ (result = "Ok" \/ closeCause = "io_read"))

\* Two frames were answered and the session then closed cleanly on EOF.
C6_Witness ==
    /\ ClosedByEof /\ ~MidFrame
    /\ result = "Ok"
    /\ Len(written) = 2

\* C7: when the stream ends mid-frame (part of a head or part of a payload
\* buffered) the session is Closed, the cut-off frame was never yielded (the
\* frames yielded are whole frames the peer sent, in order) and has no
\* response: as many responses as whole frames.
C7_MidFrameEof ==
    /\ IsPrefix(received, WholeFrames(stream))
    /\ (closeCause \in {"eof", "bytes_remaining"} /\ MidFrame) =>
          /\ Closed
          /\ stream[Len(stream)].kind = "partial"
          /\ received = WholeFrames(stream)
          /\ Len(written) = Len(received)
          /\ outWire = FramesBytes(written)

\* A frame was answered, then the stream ended inside the payload of the next.
C7_Witness ==
    /\ closeCause = "bytes_remaining"
    /\ dstate.state = "Data"
    /\ rbuf # <<>>
    /\ Len(written) = 1

\* The decoder and the session at an oversized head, and the steps after it.
C8_State ==
    /\ dstate.state = "Data" => dstate.n <= 8 * 1024 * 1024
    /\ closeCause = "frame_too_large" =>
          /\ Closed
          /\ result = "Err"
          /\ dstate.state = "Head"
          /\ Len(rbuf) >= 4
          /\ Take(rbuf, 4) \in OversizedHeads
          /\ received = WholeFrames(stream)
          /\ Len(written) = Len(received)
          /\ outWire = FramesBytes(written)

C8_Step == closeCause = "frame_too_large" => UNCHANGED <<sessionVars, outWire>>

\* C8: a head announcing more than max_frame_length is a frame error as soon
\* as the head is decoded: the decoder never awaits the data of such a frame,
\* the frame is not yielded and gets no response, the session is Closed with
\* an error and reads nothing after it.
C8_OversizedFrameFatal == [] C8_State /\ [][C8_Step]_vars

\* An oversized head was rejected with nothing but the head buffered, and a
\* valid frame sent after it stays unread.
C8_Witness ==
    /\ closeCause = "frame_too_large"
    /\ Len(rbuf) = 4
    /\ Len(stream) = 2
    /\ stream[2].kind = "frame"
    /\ wire # <<>>

\* C9: framing is faithful whatever the chunking. Every byte the peer sent is
\* in flight, buffered, the consumed head of the frame awaited, or part of a
\* frame yielded, in order, a frame on the wire being its length as 4 bytes
\* big-endian followed by the payload; so the frames yielded are the payloads
\* sent, in order, each yielded only with all its bytes read, and all of them
\* once everything is read; a stream of whole frames never ends in a frame
\* error. The responses are written as such frames too.
C9_FramingFaithful ==
    /\ FramesBytes(received) \o PendingHead \o rbuf \o wire = StreamBytes(stream)
    /\ IsPrefix(received, WholeFrames(stream))
    /\ (wire = <<>> /\ rbuf = <<>> /\ dstate.state = "Head" /\ AllFrames(stream)) =>
          received = WholeFrames(stream)
    /\ outWire = FramesBytes(written)
    /\ closeCause \in {"frame_too_large", "bytes_remaining"} => ~AllFrames(stream)
    /\ (closeCause = "eof" /\ AllFrames(stream)) => received = WholeFrames(stream)
    /\ \A i \in 1..Len(stream) :
          stream[i].kind = "frame" =>
              LengthDelimited_encode(stream[i].data).out = ExpectedFrame(stream[i].data)

\* One frame was yielded and the next has arrived in part: its head is
\* consumed and some of its payload is buffered.
C9_Witness ==
    /\ Len(received) = 1
    /\ dstate.state = "Data"
    /\ rbuf # <<>>
    /\ Len(rbuf) < dstate.n

----------------------------------------------------------------------------
\* The request codec on its own: a request value is drawn, encoded by
\* RequestEnum::encode and the bytes are decoded by Request::decode.

\* The characters messages are made of, as UTF-8: "a", "b" and "e-acute".
Chars == { <<97>>, <<98>>, <<195, 169>> }

RECURSIVE Strings(_)
Strings(n) ==
    IF n = 0 THEN { <<>> }
    ELSE Strings(n - 1) \cup { c \o t : c \in Chars, t \in Strings(n - 1) }

CodecRequests == {Ping} \cup { Echo(m) : m \in Strings(MaxMsgLen) }

CodecEncode ==
    /\ cstage = "input"
    /\ cbytes' = RequestEnum_encode(creq)
    /\ cstage' = "encoded"
    /\ UNCHANGED <<creq, cres, envVars, sessionVars, outWire, serverVars>>

CodecDecode ==
    /\ cstage = "encoded"
    /\ cres' = Request_decode(cbytes)
    /\ cstage' = "decoded"
    /\ UNCHANGED <<creq, cbytes, envVars, sessionVars, outWire, serverVars>>

\* Decoding bytes that no encoder of this program produced.
CodecDecodeRaw ==
    /\ cstage = "raw"
    /\ cres' = Request_decode(cbytes)
    /\ cstage' = "rawdecoded"
    /\ UNCHANGED <<creq, cbytes, envVars, sessionVars, outWire, serverVars>>

\* The bytes raw inputs are made of: discriminants 0, 1 and 2, lengths, "a",
\* the two bytes of "e-acute", the u16 marker and a byte no integer may start
\* with.
RawBytes == {0, 1, 2, 97, 169, 195, 251, 255}

CodecInit ==
    /\ wire = <<>>
    /\ peerEnd = "open"
    /\ ioBroken = FALSE
    /\ stream = <<>>
    /\ rbuf = <<>>
    /\ dstate = HeadState
    /\ written = <<>>
    /\ outWire = <<>>
    /\ phase = "Reading"
    /\ bytes = <<>>
    /\ resp_bytes = <<>>
    /\ result = "none"
    /\ closeCause = "none"
    /\ received = <<>>
    /\ sendAttempts = 0
    /\ \/ /\ cstage = "input"
          /\ creq \in CodecRequests
          /\ cbytes = <<>>
       \/ /\ cstage = "raw"
          /\ creq = NoRequest
          /\ cbytes \in SeqUpTo(RawBytes, MaxRawLen)
    /\ cres = DecodeErr("")
    /\ NoServer

CodecNext == CodecEncode \/ CodecDecode \/ CodecDecodeRaw

CodecSpec == CodecInit /\ [][CodecNext]_vars

----------------------------------------------------------------------------
\* C10: request encoding round-trips. Ping encodes as the discriminant 0 and
\* nothing else, Echo as the discriminant 1 followed by the length of its
\* message and the message; decoding the encoding of a request yields that
\* request, kind and fields, and consumes all the bytes.
C10_RequestRoundTrip ==
    /\ cstage \in {"encoded", "decoded"} =>
          /\ creq.kind = "Ping" => cbytes = <<0>>
          /\ creq.kind = "Echo" =>
                cbytes = <<1, Len(creq.message)>> \o creq.message
    /\ cstage = "decoded" =>
          /\ cres.ok
          /\ cres.val = creq
          /\ cres.rest = <<>>

\* An Echo with a three-byte message holding a two-byte character has made
\* the round trip.
C10_Witness ==
    /\ cstage = "decoded"
    /\ creq.kind = "Echo"
    /\ Len(creq.message) = 3
    /\ \E i \in 1..3 : creq.message[i] = 195
    /\ cres.val = creq

----------------------------------------------------------------------------
\* The server process: main binds the listener, loads the TLS material and
\* runs the accept loop; every accepted connection gets a spawned task that
\* performs the TLS handshake and then runs handle_client. Here a session
\* moves whole frames: the framing below it is what Spec models byte by byte.

\* What a peer sends on one connection: a sequence of frame payloads.
ServerScripts == { << <<0>> >>, << <<3>> >>, << <<>>, <<0>> >> }

\* The typetag names main.rs registers, for the Request and Response traits.
RequestTags == <<"Ping", "Echo", "Add">>
ResponseTags == <<"ErrorResponse", "PingResponse", "EchoResponse", "AddResponse">>

\* main's position after `?` met an error during startup.
OnStartupError_ignored == "listening"

OnStartupError == "failed"

\* TcpListener::bind(server_addr).await?
Bind ==
    /\ mainPc = "start"
    /\ \E ok \in BOOLEAN :
          IF ok THEN mainPc' = "bound" /\ UNCHANGED startup
          ELSE mainPc' = OnStartupError /\ startup' = "bind_failed"
    /\ UNCHANGED <<acceptArm, conns, envVars, sessionVars, outWire, codecVars>>

\* load_tls_config()?
LoadTlsConfig ==
    /\ mainPc = "bound"
    /\ \E ok \in BOOLEAN :
          IF ok THEN mainPc' = "listening" /\ startup' = "ok"
          ELSE mainPc' = OnStartupError /\ startup' = "tls_failed"
    /\ UNCHANGED <<acceptArm, conns, envVars, sessionVars, outWire, codecVars>>

\* The listening socket exists from bind until the process ends.
ListenerOpen == mainPc \in {"bound", "listening"}

\* The process runs its tasks.
ProcessAlive == mainPc = "listening"

\* A peer connects: the connection waits in the listener's queue.
Connect(c) ==
    /\ ListenerOpen
    /\ conns[c].st = "none"
    /\ conns' = [conns EXCEPT ![c].st = "backlog"]
    /\ UNCHANGED <<mainPc, startup, acceptArm, envVars, sessionVars, outWire, codecVars>>

\* The select! of the accept loop polls listener.accept() while its branch is
\* enabled; handle_client awaited in the loop instead of in a spawned task
\* would keep the loop from its select! for as long as a session runs.
CanAccept_inline ==
    /\ mainPc = "listening"
    /\ acceptArm = "armed"
    /\ \A c \in Conns : conns[c].st \notin {"handshake", "Reading", "Handling", "Sending"}

CanAccept == mainPc = "listening" /\ acceptArm = "armed"

\* Ok((stream, addr)) = listener.accept() => tokio::spawn(...)
AcceptConn(c) ==
    /\ CanAccept
    /\ conns[c].st = "backlog"
    /\ conns' = [conns EXCEPT ![c].st = "handshake"]
    /\ UNCHANGED <<mainPc, startup, acceptArm, envVars, sessionVars, outWire, codecVars>>

\* listener.accept() completes with Err: the pattern Ok((stream, addr)) does
\* not match, select! disables the branch and waits for its other branch.
AcceptError ==
    /\ CanAccept
    /\ acceptArm' = "disabled"
    /\ UNCHANGED <<mainPc, startup, conns, envVars, sessionVars, outWire, codecVars>>

\* A task the runtime still holds.
LiveTask(conn) == conn.st \in {"handshake", "Reading", "Handling", "Sending"}

\* _ = signal::ctrl_c() => break, and main returns Ok(()): the runtime of
\* #[tokio::main] is dropped and with it every task still held, at the await
\* where it is suspended. A poll in progress runs to its next await first
\* (handle_msg and serialize do not suspend), which is the signal arriving
\* after that poll.
CtrlC ==
    /\ mainPc = "listening"
    /\ \A c \in Conns : conns[c].st # "Handling"
    /\ mainPc' = "exited"
    /\ conns' = [c \in Conns |->
                    IF LiveTask(conns[c]) THEN [conns[c] EXCEPT !.st = "Cancelled"]
                    ELSE conns[c]]
    /\ UNCHANGED <<startup, acceptArm, envVars, sessionVars, outWire, codecVars>>

\* The spawned task after acceptor.accept(stream) gave Err: the error is
\* logged and the task ends.
HandshakeFailed_served(conn) == [conn EXCEPT !.st = "Reading", !.invoked = TRUE]

HandshakeFailed(conn) == [conn EXCEPT !.st = "tls_failed", !.logged = "tls"]

\* match acceptor.accept(stream).await; the field tls keeps the outcome of the
\* handshake, invoked tells that handle_client was called.
TlsAccept(c) ==
    /\ ProcessAlive
    /\ conns[c].st = "handshake"
    /\ \E ok \in BOOLEAN :
          conns' = [conns EXCEPT ![c] =
                       IF ok
                       THEN [@ EXCEPT !.tls = "ok", !.st = "Reading", !.invoked = TRUE]
                       ELSE HandshakeFailed([@ EXCEPT !.tls = "failed"])]
    /\ UNCHANGED <<mainPc, startup, acceptArm, envVars, sessionVars, outWire, codecVars>>

\* handle_client returned Err(e): if let Err(e) = ... { tracing::error!(...) }
ClientFailed(conn) ==
    [conn EXCEPT !.st = "Closed", !.result = "Err", !.logged = "client"]

\* framed.next() yields a frame.
SessRead(c, p) ==
    /\ ProcessAlive
    /\ conns[c].st = "Reading"
    /\ \E s \in ServerScripts : IsPrefix(Append(conns[c].reqs, p), s)
    /\ conns' = [conns EXCEPT ![c].st = "Handling", ![c].reqs = Append(@, p)]
    /\ UNCHANGED <<mainPc, startup, acceptArm, envVars, sessionVars, outWire, codecVars>>

\* framed.next() yields None: handle_client returns Ok(()).
SessEof(c) ==
    /\ ProcessAlive
    /\ conns[c].st = "Reading"
    /\ conns' = [conns EXCEPT ![c].st = "Closed", ![c].result = "Ok"]
    /\ UNCHANGED <<mainPc, startup, acceptArm, envVars, sessionVars, outWire, codecVars>>

\* line? or framed.send(..).await? meets an error of the transport.
SessIoError(c) ==
    /\ ProcessAlive
    /\ conns[c].st \in {"Reading", "Sending"}
    /\ conns' = [conns EXCEPT ![c] = ClientFailed(@)]
    /\ UNCHANGED <<mainPc, startup, acceptArm, envVars, sessionVars, outWire, codecVars>>

\* handle_msg(&bytes).await? and bincode::serialize(&resp)?
SessHandle(c) ==
    /\ ProcessAlive
    /\ conns[c].st = "Handling"
    /\ \E o \in handle_msg(conns[c].reqs[Len(conns[c].reqs)]) :
          CASE o.r = "Err" -> conns' = [conns EXCEPT ![c] = ClientFailed(@)]
            [] o.r = "Panic" ->
                 conns' = [conns EXCEPT ![c].st = "Closed", ![c].result = "Panic"]
            [] OTHER ->
                 \E e \in serialize(o.resp) :
                    IF e.ok
                    THEN conns' = [conns EXCEPT ![c].st = "Sending", ![c].resp = e.out]
                    ELSE conns' = [conns EXCEPT ![c] = ClientFailed(@)]
    /\ UNCHANGED <<mainPc, startup, acceptArm, envVars, sessionVars, outWire, codecVars>>

\* framed.send(Bytes::from(resp_bytes)).await completes.
SessSend(c) ==
    /\ ProcessAlive
    /\ conns[c].st = "Sending"
    /\ conns' = [conns EXCEPT ![c].st = "Reading",
                              ![c].written = Append(@, conns[c].resp),
                              ![c].resp = <<>>]
    /\ UNCHANGED <<mainPc, startup, acceptArm, envVars, sessionVars, outWire, codecVars>>

TaskStep(c) ==
    \/ TlsAccept(c)
    \/ \E p \in {<<>>, <<0>>, <<3>>} : SessRead(c, p)
    \/ SessEof(c)
    \/ SessIoError(c)
    \/ SessHandle(c)
    \/ SessSend(c)

MainStep ==
    \/ Bind
    \/ LoadTlsConfig
    \/ \E c \in Conns : AcceptConn(c)
    \/ AcceptError
    \/ CtrlC

ServerInit ==
    /\ wire = <<>>
    /\ peerEnd = "open"
    /\ ioBroken = FALSE
    /\ stream = <<>>
    /\ rbuf = <<>>
    /\ dstate = HeadState
    /\ written = <<>>
    /\ outWire = <<>>
    /\ phase = "Reading"
    /\ bytes = <<>>
    /\ resp_bytes = <<>>
    /\ result = "none"
    /\ closeCause = "none"
    /\ received = <<>>
    /\ sendAttempts = 0
    /\ NoCodec
    /\ mainPc = "start"
    /\ startup = "pending"
    /\ acceptArm = "armed"
    /\ conns = [c \in Conns |-> IdleConn]

ServerNext ==
    \/ MainStep
    \/ \E c \in Conns : Connect(c)
    \/ \E c \in Conns : TaskStep(c)

ServerSpec == ServerInit /\ [][ServerNext]_vars

----------------------------------------------------------------------------
\* The session against a peer that sends Add requests: Add{2, 3},
\* Add{2147483647, 1} and Add{-2147483648, -1}.

AddPayloads ==
    { <<2, 4, 6>>,
      <<2, 252, 254, 255, 255, 255, 2>>,
      <<2, 252, 255, 255, 255, 255, 1>> }

AddPeerStep ==
    \/ \E p \in AddPayloads : PeerSendFrame(p)
    \/ PeerClose
    \/ TransportFail

AddNext == SessionStep \/ AddPeerStep

AddSpec == Init /\ [][AddNext]_vars

\* The a + b of 32-bit two's complement arithmetic, from the mathematical sum.
C16_Sum32(x, y) ==
    IF y > 0 /\ x > MaxI32 - y THEN ((x - MaxI32) + (y - 1)) + MinI32
    ELSE IF y < 0 /\ x < MinI32 - y THEN ((x - MinI32) + (y + 1)) + MaxI32
    ELSE x + y

\* C16: every Add{a, b} request, a and b any 32-bit integers, is answered by
\* the success response whose sum is a + b in 32-bit arithmetic, and handling
\* it never ends the session: a session that received only Add requests is
\* closed by nothing but the end of the stream or a failure of the transport.
C16_AddTotal ==
    /\ \A k \in 1..Len(written) :
          LET d == deserialize(received[k])
          IN  (d.ok /\ d.val.kind = "Add") =>
                 written[k] = <<3>> \o encode_i32(C16_Sum32(d.val.a, d.val.b))
    /\ (\A k \in 1..Len(received) :
           deserialize(received[k]).ok /\ deserialize(received[k]).val.kind = "Add")
          => closeCause \in {"none", "eof", "io_read", "io_write", "bytes_remaining"}

----------------------------------------------------------------------------
\* Helpers of the claims about the server.

\* A task whose session ended with an error, or whose handshake failed.
FailedTask(conn) == conn.st = "tls_failed" \/ conn.result \in {"Err", "Panic"}

C11_State ==
    \A c \in Conns :
       /\ (mainPc = "listening" /\ acceptArm = "armed" /\ conns[c].st = "backlog")
             => ENABLED AcceptConn(c)
       /\ (mainPc = "listening" /\ conns[c].st = "Handling")
             => ENABLED SessHandle(c)
       /\ (mainPc = "listening" /\ conns[c].st = "Sending")
             => ENABLED SessSend(c)
       /\ conns[c].result = "Err" => conns[c].logged = "client"
       /\ conns[c].st = "tls_failed" => conns[c].logged = "tls"

C11_Step ==
    \A c \in Conns :
       (~FailedTask(conns[c]) /\ FailedTask(conns'[c])) =>
          /\ UNCHANGED <<mainPc, startup, acceptArm>>
          /\ \A d \in Conns \ {c} : conns'[d] = conns[d]

\* C11: sessions are isolated from each other and from the accept loop. Each
\* accepted connection runs in its own task: while the loop is in its select!
\* a waiting connection can be accepted whatever the other sessions do, and a
\* session that has a message in hand can go on with it whatever the others
\* did. The step in which a session ends with an error, or a handshake fails,
\* changes nothing but that one connection, and the error is logged.
C11_SessionsIsolated == [] C11_State /\ [][C11_Step]_vars

\* One session has ended with an error while the other one, accepted by the
\* same loop, has answered a message and holds its next one.
C11_Witness ==
    /\ conns[1].result = "Err"
    /\ conns[2].written # <<>>
    /\ conns[2].st = "Handling"
    /\ mainPc = "listening"
    /\ acceptArm = "armed"

\* C12: on the interrupt signal the accept loop admits no connection any more
\* and every outstanding session finishes its current message: a session is
\* never terminated by the shutdown before it has written the response to the
\* request it had read when the signal arrived.
C12_CurrentMessageFinished ==
    /\ mainPc = "exited" => ~ ENABLED (\E c \in Conns : AcceptConn(c))
    /\ \A c \in Conns :
          conns[c].st = "Cancelled" => Len(conns[c].written) = Len(conns[c].reqs)

C13_State ==
    \A c \in Conns :
       conns[c].tls = "failed" =>
          /\ conns[c].st = "tls_failed"
          /\ ~ conns[c].invoked
          /\ conns[c].reqs = <<>>
          /\ conns[c].resp = <<>>
          /\ conns[c].written = <<>>
          /\ conns[c].result = "none"
          /\ conns[c].logged = "tls"

C13_Step == \A c \in Conns : conns[c].tls = "failed" => conns'[c] = conns[c]

\* C13: a connection whose TLS handshake fails never enters the session state
\* machine: handle_client is not invoked for it, no frame is read from it and
\* no response is prepared for or written to it, at the failure or at any
\* later step; the failure is logged and the task is over.
C13_FailedHandshakeNoSession == [] C13_State /\ [][C13_Step]_vars

\* One handshake has failed while the other connection of the same server is
\* served as a session.
C13_Witness ==
    /\ conns[1].tls = "failed"
    /\ conns[1].logged = "tls"
    /\ conns[2].tls = "ok"
    /\ conns[2].written # <<>>

StartupFailed == startup \in {"bind_failed", "tls_failed"}

Distinct(tags) == Cardinality({ tags[i] : i \in 1..Len(tags) }) = Len(tags)

C14_State ==
    /\ StartupFailed =>
          /\ mainPc = "failed"
          /\ acceptArm = "armed"
          /\ \A c \in Conns :
                /\ conns[c].st \in {"none", "backlog"}
                /\ conns[c].tls = "none"
                /\ ~ conns[c].invoked
                /\ conns[c].reqs = <<>>
                /\ conns[c].written = <<>>
    /\ startup = "bind_failed" => \A c \in Conns : conns[c].st = "none"
    /\ (\E c \in Conns : conns[c].st \notin {"none", "backlog"}) => startup = "ok"
    /\ Distinct(RequestTags) /\ Distinct(ResponseTags)

C14_Step == StartupFailed => UNCHANGED serverVars

\* C14: a startup failure is fatal and comes before any connection is
\* accepted. When the address cannot be bound or the TLS material cannot be
\* loaded, main ends with the error and no accept, handshake or session step
\* occurs in that execution, then or later; a connection is only ever accepted
\* after startup succeeded. The tags the program registers are distinct, so no
\* startup meets a duplicate registration.
C14_StartupFailureFatal == [] C14_State /\ [][C14_Step]_vars

\* The listener was bound, a peer has connected to it, and loading the TLS
\* material failed: the connection is never accepted.
C14_Witness ==
    /\ startup = "tls_failed"
    /\ mainPc = "failed"
    /\ conns[1].st = "backlog"

\* Whether the bytes start with a complete unsigned discriminant, and then its
\* value (2 stands for any value other than 0 and 1) and its length in bytes.
C15_HasDisc(b) ==
    /\ b # <<>>
    /\ \/ b[1] < 251
       \/ b[1] = 251 /\ Len(b) >= 3
       \/ b[1] = 252 /\ Len(b) >= 5

C15_Disc(b) ==
    IF b[1] < 251 THEN [n |-> b[1], used |-> 1]
    ELSE IF b[1] = 251
    THEN [n |-> IF b[3] = 0 THEN b[2] ELSE 2, used |-> 3]
    ELSE [n |-> IF b[3] = 0 /\ b[4] = 0 /\ b[5] = 0 THEN b[2] ELSE 2, used |-> 5]

\* C15: the request decoder reads the unsigned discriminant first and selects
\* the kind from it alone. Without a complete discriminant the result is an
\* error; 0 yields Ping and consumes nothing after the discriminant; 1 yields
\* Echo with the message decoded from the bytes that follow, or the error of
\* decoding that message; every other value yields the error "unexpected
\* variant". An error never comes with a request value, and a request value
\* is only ever Ping or Echo.
C15_DiscriminantSelects ==
    cstage = "rawdecoded" =>
       /\ ~ C15_HasDisc(cbytes) => ~ cres.ok
       /\ C15_HasDisc(cbytes) =>
             LET d == C15_Disc(cbytes)
                 body == Drop(cbytes, d.used)
                 m == decode_string(body)
             IN  /\ d.n = 0 => cres = DecodeOk(Ping, body)
                 /\ (d.n = 1 /\ m.ok) => cres = DecodeOk(Echo(m.val), m.rest)
                 /\ (d.n = 1 /\ ~ m.ok) => (~ cres.ok /\ cres.err = m.err)
                 /\ d.n \notin {0, 1} => (~ cres.ok /\ cres.err = "UnexpectedVariant")
       /\ ~ cres.ok => (cres.val = NoRequest /\ cres.err # "")
       /\ cres.ok => cres.val.kind \in {"Ping", "Echo"}

\* The bytes 02 61 have been decoded: discriminant 2 is no variant, and no
\* request came out.
C15_Witness ==
    /\ cstage = "rawdecoded"
    /\ cbytes = <<2, 97>>
    /\ ~ cres.ok
    /\ cres.err = "UnexpectedVariant"

\* The frames a connection has been answered, as pairs of payload and response.
Answered(conn) == { <<conn.reqs[i], conn.written[i]>> : i \in 1..Len(conn.written) }

C17_State ==
    /\ \A c, d \in Conns :
          \A x \in Answered(conns[c]), y \in Answered(conns[d]) :
             x[1] = y[1] => x[2] = y[2]
    /\ \A c \in Conns :
          /\ Len(conns[c].written) <= Len(conns[c].reqs)
          /\ \A x \in Answered(conns[c]) : ResponsesFor(x[1]) = {x[2]}
          /\ conns[c].st = "Sending" =>
                ResponsesFor(conns[c].reqs[Len(conns[c].reqs)]) = {conns[c].resp}

C17_Step ==
    \A c \in Conns :
       (\/ conns[c].st = "Handling" /\ conns'[c].st # "Handling"
        \/ Len(conns'[c].written) > Len(conns[c].written)) =>
          /\ UNCHANGED <<mainPc, startup, acceptArm>>
          /\ \A d \in Conns \ {c} : conns'[d] = conns[d]

C18_AcceptLive ==
    \A c \in Conns :
       (mainPc = "listening" /\ conns[c].st = "backlog") => ENABLED AcceptConn(c)

====
